---- MODULE Spec2Model ----
(***************************************************************************)
(* A model of orqviz.pca.data_structures.PCAobject: a wrapper that holds   *)
(* a collection of parameter vectors, fits a PCA model to it and offers    *)
(* forward / inverse projection and plotting bounds.                       *)
(*                                                                         *)
(* numpy arrays are records [shape, data] with row-major data.  Reals are  *)
(* integers here: every data set of the model has integer column means,    *)
(* pairwise uncorrelated columns and no two non-constant columns of equal  *)
(* variance, so that its principal directions are exactly the coordinate   *)
(* axes in order of decreasing variance and every projection is an         *)
(* integer.  The sign of a direction and the order among directions of     *)
(* zero variance are the library's choice; the model takes the positive    *)
(* sign and the smaller column first.                                      *)
(***************************************************************************)
EXTENDS Integers, Sequences, FiniteSets, TLC

VARIABLES
    self,               \* the PCAobject: all_points, _params_shape, components_ids, pca
    ctor,               \* the all_points argument __init__ was called with
    old,                \* self when the last call began (for a call made while
                        \* set_component_ids is running: when that one began)
    call,               \* the last call: [op, arg, at], at = pc when it was made
    ret,                \* what the last call returned or raised
    pc,                 \* line at which a running set_component_ids stands
    new_component_ids   \* argument of the running set_component_ids

vars == <<self, ctor, old, call, ret, pc, new_component_ids>>

-----------------------------------------------------------------------------
(* Bounds of the model *)

\* component ids are drawn from -MaxNeg .. MaxId
MaxId == 2
MaxNeg == 1
\* coordinate vectors given to get_inverse_transformed_point have 0..MaxCoordLen entries
MaxCoordLen == 3

-----------------------------------------------------------------------------
(* Integers and sequences *)

Max2(a, b) == IF a >= b THEN a ELSE b

Min2(a, b) == IF a <= b THEN a ELSE b

RECURSIVE SumTo(_, _)
\* sum of f[1] + ... + f[n]
SumTo(f, n) == IF n = 0 THEN 0 ELSE f[n] + SumTo(f, n - 1)

RECURSIVE SeqMin(_)
\* Python's min() over a non-empty sequence
SeqMin(s) == IF Len(s) = 1 THEN s[1] ELSE Min2(s[1], SeqMin(Tail(s)))

RECURSIVE SeqMax(_)
\* Python's max() over a non-empty sequence
SeqMax(s) == IF Len(s) = 1 THEN s[1] ELSE Max2(s[1], SeqMax(Tail(s)))

-----------------------------------------------------------------------------
(* numpy *)

\* Python's None
None == [shape |-> <<>>, data |-> <<>>]

Ok(v) == [ok |-> TRUE, err |-> "", val |-> v]

Raise(e) == [ok |-> FALSE, err |-> e, val |-> None]

RECURSIVE np_prod(_)
\* np.prod of a shape tuple
np_prod(shape) == IF shape = <<>> THEN 1 ELSE Head(shape) * np_prod(Tail(shape))

\* np.shape(a)
np_shape(a) == a.shape

\* a.reshape(-1, *tail): the leading axis is inferred from the size
reshape_rows(a, tail) ==
    LET w == np_prod(tail)
        size == Len(a.data)
    IN  IF w = 0 \/ size % w # 0
        THEN Raise("ValueError")
        ELSE Ok([shape |-> <<size \div w>> \o tail, data |-> a.data])

\* a.reshape(*shape): the size must be that of the shape
reshape_to(a, shape) ==
    IF Len(a.data) # np_prod(shape)
    THEN Raise("ValueError")
    ELSE Ok([shape |-> shape, data |-> a.data])

\* number of rows and columns of a 2-d array, and its entry in row i, column j
NRows(X) == X.shape[1]

NCols(X) == X.shape[2]

At(X, i, j) == X.data[(i - 1) * NCols(X) + j]

\* X[:, c] with numpy's indexing: a negative c counts from the last column
column(X, c) ==
    LET m == NCols(X)
    IN  IF c >= m \/ c < -m
        THEN Raise("IndexError")
        ELSE LET j == IF c >= 0 THEN c + 1 ELSE m + c + 1
             IN  Ok([i \in 1..NRows(X) |-> At(X, i, j)])

-----------------------------------------------------------------------------
(* sklearn.decomposition.PCA, as PCAobject uses it *)

\* PCA(n_components=n): a new, unfitted estimator.  id is the identity of the
\* instance: all that matters of it is that a new instance is not the one the
\* object holds when it is created
PCA(id, n) ==
    [id |-> id, n_components |-> n, fitted |-> FALSE,
     mean_ |-> <<>>, components_ |-> <<>>]

\* mean of column j of X
ColMean(X, j) == SumTo([i \in 1..NRows(X) |-> At(X, i, j)], NRows(X)) \div NRows(X)

\* NRows(X) times the variance of column j, whose mean is m
ColSS(X, j, m) ==
    SumTo([i \in 1..NRows(X) |-> (At(X, i, j) - m) * (At(X, i, j) - m)], NRows(X))

\* position of column j when the columns are ordered by decreasing variance ss
ColRank(ss, j) ==
    1 + Cardinality({k \in DOMAIN ss :
            \/ ss[k] > ss[j]
            \/ ss[k] = ss[j] /\ k < j})

\* the r-th principal direction: the unit vector of the column of rank r
Direction(rank, r) ==
    LET c == CHOOSE j \in DOMAIN rank : rank[j] = r
    IN  [j \in DOMAIN rank |-> IF j = c THEN 1 ELSE 0]

\* pca.fit(X): rejects a component count outside 0..min(n_samples, n_features)
PCA_fit(pca, X) ==
    IF pca.n_components < 0 \/ pca.n_components > Min2(NRows(X), NCols(X))
    THEN [pca |-> pca, ret |-> Raise("ValueError")]
    ELSE LET mu == [j \in 1..NCols(X) |-> ColMean(X, j)]
             ss == [j \in 1..NCols(X) |-> ColSS(X, j, mu[j])]
             rank == [j \in 1..NCols(X) |-> ColRank(ss, j)]
         IN  [pca |-> [pca EXCEPT
                         !.fitted = TRUE,
                         !.mean_ = mu,
                         !.components_ =
                             [r \in 1..pca.n_components |-> Direction(rank, r)]],
              ret |-> Ok(None)]

\* pca.transform(X) = (X - mean_) . components_^T; the input is validated first:
\* it must have at least one row and as many columns as the fitted data
PCA_transform(pca, X) ==
    IF ~pca.fitted THEN Raise("NotFittedError")
    ELSE IF NRows(X) = 0 THEN Raise("ValueError")
    ELSE IF NCols(X) # Len(pca.mean_) THEN Raise("ValueError")
    ELSE LET n == Len(pca.components_)
             w == NCols(X)
             entry(i, k) ==
                 SumTo([j \in 1..w |->
                           (At(X, i, j) - pca.mean_[j]) * pca.components_[k][j]], w)
         IN  Ok([shape |-> <<NRows(X), n>>,
                 data |-> [p \in 1..(NRows(X) * n) |->
                              entry(((p - 1) \div n) + 1, ((p - 1) % n) + 1)]])

\* pca.inverse_transform(v) = v . components_ + mean_, for a 1-d v
PCA_inverse_transform(pca, v) ==
    IF ~pca.fitted THEN Raise("NotFittedError")
    ELSE IF Len(v) # Len(pca.components_) THEN Raise("ValueError")
    ELSE LET w == Len(pca.mean_)
         IN  Ok([shape |-> <<w>>,
                 data |-> [j \in 1..w |->
                     SumTo([k \in 1..Len(v) |-> v[k] * pca.components_[k][j]], Len(v))
                     + pca.mean_[j]]])

\* pca.components_ as a 2-d array
PCA_components_(pca) ==
    IF ~pca.fitted THEN Raise("NotFittedError")
    ELSE LET n == Len(pca.components_)
             w == Len(pca.mean_)
         IN  Ok([shape |-> <<n, w>>,
                 data |-> [p \in 1..(n * w) |->
                     pca.components_[((p - 1) \div w) + 1][((p - 1) % w) + 1]]])

\* pca.mean_ as a 1-d array
PCA_mean_(pca) ==
    IF ~pca.fitted THEN Raise("NotFittedError")
    ELSE Ok([shape |-> <<Len(pca.mean_)>>, data |-> pca.mean_])

-----------------------------------------------------------------------------
(* PCAobject *)

\* Python's max() over the pair of component ids
max_ids(ids) == Max2(ids[1], ids[2])

\* fit_pca, first statement: self.pca = PCA(n_components=n_components)
fit_pca_new(self_, id, n_components) ==
    [all_points |-> self_.all_points,
     _params_shape |-> self_._params_shape,
     components_ids |-> self_.components_ids,
     pca |-> PCA(id, n_components)]

\* a fit_pca_fit that fits a copy of the estimator and does not keep it
fit_pca_fit_unstored(self_) ==
    LET params == reshape_rows(self_.all_points, <<np_prod(self_._params_shape)>>)
    IN  IF ~params.ok
        THEN [self |-> self_, ret |-> params]
        ELSE [self |-> self_, ret |-> PCA_fit(self_.pca, params.val).ret]

\* fit_pca, the rest: reshape the stored points to rows and fit self.pca to them
fit_pca_fit(self_) ==
    LET params == reshape_rows(self_.all_points, <<np_prod(self_._params_shape)>>)
    IN  IF ~params.ok
        THEN [self |-> self_, ret |-> params]
        ELSE LET f == PCA_fit(self_.pca, params.val)
             IN  [self |-> [self_ EXCEPT !.pca = f.pca], ret |-> f.ret]

fit_pca(self_, id, n_components) == fit_pca_fit(fit_pca_new(self_, id, n_components))

\* set_component_ids, last statement: self.components_ids = new_component_ids
assign_ids(self_, new_ids) == [self_ EXCEPT !.components_ids = new_ids]

\* PCAobject(all_points, components_ids); id names the PCA instance it creates
__init__(all_points_, components_ids_, id) ==
    LET s == [all_points |-> all_points_,
              _params_shape |-> SubSeq(np_shape(all_points_), 2,
                                       Len(np_shape(all_points_))),
              components_ids |-> components_ids_]
    IN  fit_pca(s, id, max_ids(s.components_ids) + 1)

\* a set_component_ids that skips the refit when the ids do not change
set_component_ids_skipping(self_, new_ids, id) ==
    IF new_ids = self_.components_ids
    THEN [self |-> self_, ret |-> Ok(None)]
    ELSE LET f == fit_pca(self_, id, max_ids(new_ids) + 1)
         IN  IF ~f.ret.ok
             THEN f
             ELSE [self |-> assign_ids(f.self, new_ids), ret |-> Ok(None)]

set_component_ids(self_, new_ids, id) ==
    LET new_n_components == max_ids(new_ids) + 1
        f == fit_pca(self_, id, new_n_components)
    IN  IF ~f.ret.ok
        THEN f
        ELSE [self |-> assign_ids(f.self, new_ids), ret |-> Ok(None)]

\* a get_transformed_points that keeps the supplied points as the stored ones
get_transformed_points_storing(self_, points) ==
    LET high_dim_points == IF points = None THEN self_.all_points ELSE points
        flat == reshape_rows(high_dim_points, <<np_prod(self_._params_shape)>>)
    IN  [self |-> [self_ EXCEPT !.all_points = high_dim_points],
         ret |-> IF ~flat.ok THEN flat ELSE PCA_transform(self_.pca, flat.val)]

\* a get_transformed_points that projects the stored points whatever it is given
get_transformed_points_stored_only(self_, points) ==
    LET flat == reshape_rows(self_.all_points, <<np_prod(self_._params_shape)>>)
    IN  [self |-> self_,
         ret |-> IF ~flat.ok THEN flat ELSE PCA_transform(self_.pca, flat.val)]

get_transformed_points(self_, points) ==
    LET high_dim_points == IF points = None THEN self_.all_points ELSE points
        flat == reshape_rows(high_dim_points, <<np_prod(self_._params_shape)>>)
    IN  [self |-> self_,
         ret |-> IF ~flat.ok THEN flat ELSE PCA_transform(self_.pca, flat.val)]

\* a get_inverse_transformed_point that returns a collection of one vector
get_inverse_transformed_point_rows(self_, pca_params) ==
    LET p == PCA_inverse_transform(self_.pca, pca_params)
    IN  [self |-> self_,
         ret |-> IF ~p.ok THEN p ELSE reshape_rows(p.val, self_._params_shape)]

get_inverse_transformed_point(self_, pca_params) ==
    LET p == PCA_inverse_transform(self_.pca, pca_params)
    IN  [self |-> self_,
         ret |-> IF ~p.ok THEN p ELSE reshape_to(p.val, self_._params_shape)]

components(self_) ==
    LET c == PCA_components_(self_.pca)
    IN  [self |-> self_,
         ret |-> IF ~c.ok THEN c ELSE reshape_rows(c.val, self_._params_shape)]

mean(self_) ==
    LET m == PCA_mean_(self_.pca)
    IN  [self |-> self_,
         ret |-> IF ~m.ok THEN m ELSE reshape_to(m.val, self_._params_shape)]

\* one pair of end points: (min(col) + offset[0], max(col) + offset[1])
end_points(X, c, offset) ==
    LET col == column(X, c)
    IN  IF ~col.ok THEN col
        ELSE IF Len(col.val) = 0 THEN Raise("ValueError")
        ELSE Ok(<<SeqMin(col.val) + offset[1], SeqMax(col.val) + offset[2]>>)

\* a _get_endpoints_from_pca that always reads the columns 0 and 1
_get_endpoints_from_pca_first_two(self_, offset) ==
    LET t == get_transformed_points(self_, None)
        end_points_x == end_points(t.ret.val, 0, offset)
        end_points_y == end_points(t.ret.val, 1, offset)
    IN  [self |-> t.self,
         ret |-> IF ~t.ret.ok THEN t.ret
                 ELSE IF ~end_points_x.ok THEN end_points_x
                 ELSE IF ~end_points_y.ok THEN end_points_y
                 ELSE Ok(<<end_points_x.val, end_points_y.val>>)]

_get_endpoints_from_pca(self_, offset) ==
    LET t == get_transformed_points(self_, None)
        pca_transformed_points == t.ret
        end_points_x == end_points(pca_transformed_points.val,
                                   self_.components_ids[1], offset)
        end_points_y == end_points(pca_transformed_points.val,
                                   self_.components_ids[2], offset)
    IN  [self |-> t.self,
         ret |-> IF ~pca_transformed_points.ok THEN pca_transformed_points
                 ELSE IF ~end_points_x.ok THEN end_points_x
                 ELSE IF ~end_points_y.ok THEN end_points_y
                 ELSE Ok(<<end_points_x.val, end_points_y.val>>)]

-----------------------------------------------------------------------------
(* The inputs of the model *)

\* four vectors of shape (3,): variances 0, 2, 18
DataA == [shape |-> <<4, 3>>,
          data |-> <<1, 3, 0,   1, 1, 0,   1, 2, 3,   1, 2, -3>>]

\* two vectors of shape (2, 2): variances 0, 0, 18, 0
DataB == [shape |-> <<2, 2, 2>>,
          data |-> <<0, 0, 4, 1,   0, 0, -2, 1>>]

Datasets == {DataA, DataB}

\* X has integer column means, uncorrelated columns and no two non-constant
\* columns of equal variance
AxisAligned(X) ==
    /\ \A j \in 1..NCols(X) :
          SumTo([i \in 1..NRows(X) |-> At(X, i, j)], NRows(X)) % NRows(X) = 0
    /\ \A j, k \in 1..NCols(X) :
          j # k =>
            /\ SumTo([i \in 1..NRows(X) |->
                        (At(X, i, j) - ColMean(X, j)) * (At(X, i, k) - ColMean(X, k))],
                     NRows(X)) = 0
            /\ ColSS(X, j, ColMean(X, j)) = ColSS(X, k, ColMean(X, k))
                  => ColSS(X, j, ColMean(X, j)) = 0

IdPairs == (-MaxNeg..MaxId) \X (-MaxNeg..MaxId)

\* what get_transformed_points is called with
SuppliedPoints ==
    { None,
      [shape |-> <<2, 3>>, data |-> <<1, 0, 7,   0, 5, -1>>],
      [shape |-> <<0, 3>>, data |-> <<>>],
      [shape |-> <<2, 2, 2>>, data |-> <<0, 0, 0, 0,   3, 1, 4, 1>>],
      [shape |-> <<2, 2>>, data |-> <<3, 1, 4, 1>>] }

\* what get_inverse_transformed_point is called with
Coordinates ==
    { [k \in 1..len |-> 2 * k - 3] : len \in 0..MaxCoordLen }

Offsets == { <<-1, 1>>, <<-2, 3>> }

ReadOps == { "get_transformed_points", "get_inverse_transformed_point",
             "components", "mean", "_get_endpoints_from_pca" }

-----------------------------------------------------------------------------
(* The state machine *)

\* the identity of an instance created while self_.pca is alive
new_object(self_) == 1 - self_.pca.id

Init ==
    /\ ctor \in Datasets
    /\ \A X \in Datasets :
          LET flat == reshape_rows(X, <<np_prod(SubSeq(X.shape, 2, Len(X.shape)))>>)
          IN  flat.ok /\ AxisAligned(flat.val)
    /\ \E components_ids \in IdPairs :
          LET c == __init__(ctor, components_ids, 0)
          IN  /\ c.ret.ok
              /\ self = c.self
              /\ old = c.self
              /\ call = [op |-> "__init__", arg |-> components_ids, at |-> "idle"]
    /\ ret = Ok(None)
    /\ pc = "idle"
    /\ new_component_ids = <<>>

\* a call of a read operation, made at any time
Read(op, arg, r) ==
    /\ self' = r.self
    /\ ret' = r.ret
    /\ call' = [op |-> op, arg |-> arg, at |-> pc]
    /\ old' = IF pc = "idle" THEN self ELSE old
    /\ UNCHANGED <<ctor, pc, new_component_ids>>

Get_transformed_points ==
    \E points \in SuppliedPoints :
        Read("get_transformed_points", points, get_transformed_points(self, points))

Get_inverse_transformed_point ==
    \E pca_params \in Coordinates :
        Read("get_inverse_transformed_point", pca_params,
             get_inverse_transformed_point(self, pca_params))

Components == Read("components", None, components(self))

Mean == Read("mean", None, mean(self))

Get_endpoints_from_pca ==
    \E offset \in Offsets :
        Read("_get_endpoints_from_pca", offset, _get_endpoints_from_pca(self, offset))

\* a whole call of set_component_ids
Set_component_ids ==
    /\ pc = "idle"
    /\ \E new_ids \in IdPairs :
          LET r == set_component_ids(self, new_ids, new_object(self))
          IN  /\ self' = r.self
              /\ ret' = r.ret
              /\ call' = [op |-> "set_component_ids", arg |-> new_ids, at |-> "idle"]
    /\ old' = self
    /\ UNCHANGED <<ctor, pc, new_component_ids>>

Next ==
    \/ Set_component_ids
    \/ Get_transformed_points
    \/ Get_inverse_transformed_point
    \/ Components
    \/ Mean
    \/ Get_endpoints_from_pca

\* the object used from one thread: every call runs to its end
Spec == Init /\ [][Next]_vars

-----------------------------------------------------------------------------
(* set_component_ids statement by statement, with reads from other threads   *)
(* in between                                                                *)

\* a set_component_ids that assigns components_ids before it refits
Set_new_pca_assigning_first ==
    /\ pc = "idle"
    /\ \E new_ids \in IdPairs :
          /\ self' = assign_ids(fit_pca_new(self, new_object(self), max_ids(new_ids) + 1),
                                new_ids)
          /\ new_component_ids' = new_ids
          /\ call' = [op |-> "set_component_ids", arg |-> new_ids, at |-> "idle"]
    /\ old' = self
    /\ pc' = "fit"
    /\ UNCHANGED <<ctor, ret>>

\* entry, and fit_pca's first statement
Set_new_pca ==
    /\ pc = "idle"
    /\ \E new_ids \in IdPairs :
          /\ self' = fit_pca_new(self, new_object(self), max_ids(new_ids) + 1)
          /\ new_component_ids' = new_ids
          /\ call' = [op |-> "set_component_ids", arg |-> new_ids, at |-> "idle"]
    /\ old' = self
    /\ pc' = "fit"
    /\ UNCHANGED <<ctor, ret>>

\* fit_pca's reshape and fit; a failure ends the call
Set_fit ==
    /\ pc = "fit"
    /\ LET f == fit_pca_fit(self)
       IN  /\ self' = f.self
           /\ pc' = IF f.ret.ok THEN "assign" ELSE "idle"
           /\ ret' = IF f.ret.ok THEN ret ELSE f.ret
           /\ new_component_ids' = IF f.ret.ok THEN new_component_ids ELSE <<>>
           /\ call' = IF f.ret.ok THEN call
                      ELSE [op |-> "set_component_ids", arg |-> new_component_ids,
                            at |-> "idle"]
    /\ UNCHANGED <<ctor, old>>

\* the assignment of components_ids, and the return
Set_assign ==
    /\ pc = "assign"
    /\ self' = assign_ids(self, new_component_ids)
    /\ ret' = Ok(None)
    /\ call' = [op |-> "set_component_ids", arg |-> new_component_ids, at |-> "idle"]
    /\ pc' = "idle"
    /\ new_component_ids' = <<>>
    /\ UNCHANGED <<ctor, old>>

NextConc ==
    \/ Set_new_pca
    \/ Set_fit
    \/ Set_assign
    \/ Get_transformed_points
    \/ Get_inverse_transformed_point
    \/ Components
    \/ Mean
    \/ Get_endpoints_from_pca

SpecConc == Init /\ [][NextConc]_vars

-----------------------------------------------------------------------------
(* Properties *)

\* the stored collection as given to __init__: number of vectors, flattened
\* width, coordinate j of vector i
NPoints == ctor.shape[1]

Width == Len(ctor.data) \div NPoints

ParameterShape == [d \in 1..(Len(ctor.shape) - 1) |-> ctor.shape[d + 1]]

LargerId(ids) == CHOOSE m \in {ids[1], ids[2]} : \A x \in {ids[1], ids[2]} : m >= x

NonNegative(ids) == ids[1] >= 0 /\ ids[2] >= 0

SetMin(S) == CHOOSE m \in S : \A x \in S : m <= x

SetMax(S) == CHOOSE m \in S : \A x \in S : m >= x

\* the number of components of the fitted model
FittedCount(s) == Len(s.pca.components_)

\* coordinate of vector i of the flat data along fitted direction k
Projected(data, i, k) ==
    SumTo([j \in 1..Width |->
              (data[(i - 1) * Width + j] - self.pca.mean_[j]) * self.pca.components_[k][j]],
          Width)

IsSet == call.op = "set_component_ids"

\* the object was built, and set so far, with non-negative indices only
IndicesAsSpecified ==
    /\ NonNegative(self.components_ids)
    /\ NonNegative(old.components_ids)
    /\ IsSet => NonNegative(call.arg)

\* C1: in every reachable state (of an object used with non-negative indices)
\* the model is fitted and the number of its components is
\* max(component_indices) + 1.
C1_FittedCountIsMaxPlusOne ==
    IndicesAsSpecified =>
        /\ self.pca.fitted
        /\ FittedCount(self) = LargerId(self.components_ids) + 1

C3_ReadsChangeNothing ==
    /\ self.all_points = ctor
    /\ self._params_shape = ParameterShape
    /\ call.op \in ReadOps => self = old

\* C3 witness: a transform of supplied points has returned, after a refit.
C3_Witness ==
    /\ call.op = "get_transformed_points"
    /\ call.arg # None
    /\ ret.ok
    /\ self.pca.id = 1

\* the pair suggested_bounds is to return for the axis of component index c
ExpectedRange(c, offset) ==
    LET col == { Projected(ctor.data, i, c + 1) : i \in 1..NPoints }
    IN  <<SetMin(col) + offset[1], SetMax(col) + offset[2]>>

CalledOn == IF call.arg = None THEN ctor ELSE call.arg

\* pts is a collection of vectors of the parameter shape
OfParameterShape(pts) ==
    /\ Len(pts.shape) = Len(ParameterShape) + 1
    /\ \A d \in 1..Len(ParameterShape) : pts.shape[d + 1] = ParameterShape[d]

\* ret holds one row per vector of pts and one column per fitted component,
\* max(component_indices) + 1 of them: the projections of pts
IsProjectionOf(pts) ==
    /\ ret.ok
    /\ ret.val.shape = <<pts.shape[1], LargerId(self.components_ids) + 1>>
    /\ \A i \in 1..pts.shape[1] :
          \A k \in 1..FittedCount(self) :
              ret.val.data[(i - 1) * FittedCount(self) + k] = Projected(pts.data, i, k)

C6_FailedRefitLeavesNoTrace ==
    (IsSet /\ ~ret.ok /\ IndicesAsSpecified /\ old.pca.fitted) => self = old

C8_IndicesNonNegative == NonNegative(self.components_ids)

\* C9: on a fitted model, get_inverse_transformed_point returns one array of the
\* parameter shape when given as many coordinates as there are fitted
\* components, and fails with a shape error for any other number; the object
\* is as it was before the call.
C9_InverseTransformLength ==
    call.op = "get_inverse_transformed_point" =>
        /\ self = old
        /\ self.pca.fitted =>
              IF Len(call.arg) = FittedCount(self)
              THEN /\ ret.ok
                   /\ ret.val.shape = ParameterShape
                   /\ Len(ret.val.data) = Width
              ELSE /\ ~ret.ok
                   /\ ret.err = "ValueError"

\* C9 witness: a coordinate vector of the wrong length was refused.
C9_Witness ==
    /\ call.op = "get_inverse_transformed_point"
    /\ self.pca.fitted
    /\ Len(call.arg) # FittedCount(self)
    /\ Len(call.arg) > 0
    /\ ~ret.ok

====
